---- MODULE Spec2Model ----
(***************************************************************************)
(* Model of the device pairing-code endpoint,                              *)
(* api/public/public_api/endpoints/device_code.py (DeviceCodeEndpoint).    *)
(* Several GET requests run concurrently against one shared cache.  Each   *)
(* request builds its response dict, then loops: generate a pairing code,  *)
(* try to add it to the cache with set_if_not_exists_with_expiration.      *)
(***************************************************************************)
EXTENDS Integers, Sequences, FiniteSets, TLC

(***************************************************************************)
(* Bounds of the model.                                                    *)
(***************************************************************************)
\* number of concurrent requests
MaxRequests == 2
\* random.choice draws an index of ALLOWED_CHARACTERS in 1..MaxDraw at the
\* positions VaryPositions of a code (at the other positions, index 1)
MaxDraw == 2

(***************************************************************************)
(* Program constants.                                                      *)
(***************************************************************************)
ALLOWED_CHARACTERS ==
    << "A", "C", "E", "F", "H", "J", "K", "L", "M", "N", "P",
       "R", "T", "U", "V", "W", "X", "Y", "3", "4", "7", "9" >>
ONE_DAY == 86400
\* range(6) in _generate_pairing_code
CODE_LENGTH == 6
\* HTTPStatus.OK
HTTP_OK == 200
\* hashlib.sha512().digest_size, in bytes
SHA512_DIGEST_SIZE == 64

None == "<None>"
Requests == 1..MaxRequests
\* values of the request's 'state' parameter (None: the parameter is missing)
StateArgs == {"abc123", None}
\* values of the request's 'packaging' parameter (None: not supplied)
PackagingArgs == {"ovos-core", None}
\* values of uuid.uuid4(): fresh for every call, so the call of request r
\* never returns what the call of another request returned
Uuids(r) == {r}
\* the positions of a code at which the draws vary
VaryPositions == {6}

(***************************************************************************)
(* Python dicts: a sequence of <<key, value>> pairs in insertion order.    *)
(***************************************************************************)
DictKeys(d) == {d[i][1] : i \in 1..Len(d)}
DictHas(d, k) == k \in DictKeys(d)
DictGet(d, k) == d[CHOOSE i \in 1..Len(d) : d[i][1] = k][2]
\* dict.update(k=v): replaces the value in place, or appends the new key
DictUpdate(d, k, v) ==
    IF DictHas(d, k)
    THEN [i \in 1..Len(d) |-> IF d[i][1] = k THEN <<k, v>> ELSE d[i]]
    ELSE Append(d, <<k, v>>)

(***************************************************************************)
(* json.dumps / json.loads of a flat dict whose values are strings (a      *)
(* sequence of characters, or an atomic string) or non-negative integers.  *)
(* The JSON text is a sequence of tokens; a string is rendered between     *)
(* quotes, a number as its decimal digits.                                 *)
(***************************************************************************)
Digits == << "0", "1", "2", "3", "4", "5", "6", "7", "8", "9" >>
RECURSIVE IntToDigits(_)
IntToDigits(n) ==
    IF n < 10 THEN << Digits[n + 1] >>
    ELSE Append(IntToDigits(n \div 10), Digits[(n % 10) + 1])
DigitValue(c) == (CHOOSE i \in 1..10 : Digits[i] = c) - 1
RECURSIVE DigitsToInt(_)
DigitsToInt(s) ==
    IF Len(s) = 0 THEN 0
    ELSE DigitsToInt(SubSeq(s, 1, Len(s) - 1)) * 10 + DigitValue(s[Len(s)])

\* kinds of the values of the dicts: "int", "chars" (a sequence of
\* one-character strings) or "str" (an atomic string)
JsonValue(kind, v) ==
    CASE kind = "int" -> IntToDigits(v)
      [] kind = "chars" -> << "\"" >> \o v \o << "\"" >>
      [] OTHER -> << "\"", v, "\"" >>
FieldKind(k) ==
    CASE k = "expiration" -> "int"
      [] k \in {"token", "code"} -> "chars"
      [] OTHER -> "str"
JsonDumps(d) ==
    [i \in 1..Len(d) |->
        [name |-> << "\"", d[i][1], "\"" >>,
         text |-> JsonValue(FieldKind(d[i][1]), d[i][2])]]
JsonParseValue(kind, text) ==
    CASE kind = "int" -> DigitsToInt(text)
      [] kind = "chars" -> SubSeq(text, 2, Len(text) - 1)
      [] OTHER -> text[2]
JsonLoads(s) ==
    [i \in 1..Len(s) |->
        << s[i].name[2], JsonParseValue(FieldKind(s[i].name[2]), s[i].text) >>]

(***************************************************************************)
(* Token and pairing-code generation.                                      *)
(***************************************************************************)
HexChars ==
    << "0", "1", "2", "3", "4", "5", "6", "7", "8", "9",
       "a", "b", "c", "d", "e", "f" >>
\* sha512 of str(uuid4): SHA512_DIGEST_SIZE bytes that depend on the uuid.
\* The hash itself is abstracted: some fixed bytes for each uuid.
Sha512Digest(u) ==
    [i \in 1..SHA512_DIGEST_SIZE |-> (u * 151 + i * i * 37 + i * 11) % 256]
\* (mutant) the digits rendered in upper case
HexDigest_Upper(bytes) ==
    [j \in 1..(2 * Len(bytes)) |->
        LET UpperHex == << "0", "1", "2", "3", "4", "5", "6", "7", "8", "9",
                           "A", "B", "C", "D", "E", "F" >>
        IN IF j % 2 = 1 THEN UpperHex[(bytes[(j + 1) \div 2] \div 16) + 1]
                        ELSE UpperHex[(bytes[j \div 2] % 16) + 1]]
\* hexdigest(): two lowercase hexadecimal digits for each byte
HexDigest(bytes) ==
    [j \in 1..(2 * Len(bytes)) |->
        IF j % 2 = 1 THEN HexChars[(bytes[(j + 1) \div 2] \div 16) + 1]
                     ELSE HexChars[(bytes[j \div 2] % 16) + 1]]
GenerateToken(u) == HexDigest(Sha512Digest(u))

\* the outcomes of the CODE_LENGTH calls of random.choice: one index of
\* ALLOWED_CHARACTERS for each position
RandomDraws ==
    {[i \in 1..CODE_LENGTH |-> IF i \in VaryPositions THEN f[i] ELSE 1] :
        f \in [VaryPositions -> 1..MaxDraw]}
\* (mutant) one character short: range(CODE_LENGTH - 1)
GeneratePairingCode_Short(draw) ==
    [i \in 1..(CODE_LENGTH - 1) |-> ALLOWED_CHARACTERS[draw[i + 1]]]
\* "".join(random.choice(ALLOWED_CHARACTERS) for _ in range(6))
GeneratePairingCode(draw) ==
    [i \in 1..CODE_LENGTH |-> ALLOWED_CHARACTERS[draw[i]]]
GeneratedLogMsg(code) == << "Generated pairing code " >> \o code

(***************************************************************************)
(* The dicts the endpoint builds.                                          *)
(***************************************************************************)
\* dict(state=..., token=..., expiration=ONE_DAY)
InitialResponseData(state, token) ==
    << <<"state", state>>, <<"token", token>>, <<"expiration", ONE_DAY>> >>
\* (mutant) the token is generated again with every code
UpdateCode_NewToken(rd, code) ==
    DictUpdate(DictUpdate(rd, "code", code), "token",
               GenerateToken(Len(rd) + 7))
\* response_data.update(code=pairing_code)
UpdateCode(rd, code) == DictUpdate(rd, "code", code)
\* DEVICE_PAIRING_CODE_KEY.format(pairing_code=response_data["code"])
DEVICE_PAIRING_CODE_KEY(code) == << "pairing_code:" >> \o code
\* (mutant) the key is formatted from another field of the record
CacheKey_ByToken(rd) == DEVICE_PAIRING_CODE_KEY(DictGet(rd, "token"))
CacheKey(rd) == DEVICE_PAIRING_CODE_KEY(DictGet(rd, "code"))
\* (mutant) packaging_type is written without the test for None
CacheValue_Always(rd, packaging) ==
    DictUpdate(rd, "packaging_type", packaging)
\* cache_value = dict(**response_data), plus packaging_type when supplied
CacheValue(rd, packaging) ==
    IF packaging # None THEN DictUpdate(rd, "packaging_type", packaging)
    ELSE rd
\* (mutant) cache_value = response_data: an alias, not a copy
ResponseDataAfterCopy_Alias(rd, packaging) == CacheValue(rd, packaging)
\* response_data after cache_value was built from it: dict(**response_data)
\* is a copy, so the update of cache_value leaves response_data alone
ResponseDataAfterCopy(rd, packaging) == rd
\* (mutant) the entry is given another lifetime than ONE_DAY
CacheExpiration_Hour == 60 * 60
\* expiration=ONE_DAY in the call of set_if_not_exists_with_expiration
CacheExpiration == ONE_DAY
\* (mutant) request.args.get("state"): a missing parameter does not raise
StateLookupRaises_Never(s) == FALSE
\* request.args["state"] raises when the parameter is missing
StateLookupRaises(s) == s = None
\* (mutant) the loop goes on after a successful set
LoopStops_Never(added_to_cache) == FALSE
\* while not added_to_cache: the loop stops when the set succeeded
LoopStops(added_to_cache) == added_to_cache
\* (mutant) an error of the cache is caught and taken for a collision
PcAfterCacheError_Retry == "loop"
\* no try/except around the cache call: its error ends the request
PcAfterCacheError == "error"
\* the key the collision log message formats: response_data["pairing_code"]
CollisionLogField == "pairing_code"
CollisionLogMsg(code) ==
    << "Pairing code " >> \o code \o << " exists, generating new code" >>

(***************************************************************************)
(* The cache: set_if_not_exists_with_expiration is atomic; it creates the  *)
(* key and returns TRUE iff the key was absent.                            *)
(***************************************************************************)
SetIfNotExistsResult(c, key) == key \notin DOMAIN c
SetIfNotExistsCache(c, key, value, expiration) ==
    IF key \in DOMAIN c THEN c
    ELSE [k \in DOMAIN c \cup {key} |->
            IF k = key THEN [value |-> value, ttl |-> expiration] ELSE c[k]]
\* the time one Tick lets pass, in seconds
TickSeconds == ONE_DAY \div 2
\* an entry left by an earlier pairing session of another device
FOREIGN_CODE == GeneratePairingCode([i \in 1..CODE_LENGTH |-> 1])
ForeignValue ==
    JsonDumps(UpdateCode(InitialResponseData("other-device", GenerateToken(0)),
                         FOREIGN_CODE))

(***************************************************************************)
(* State.                                                                  *)
(***************************************************************************)
VARIABLES
    pc,             \* where each request is
    args,           \* request.args of each request
    response_data,  \* the dict _build_response builds
    response,       \* what get returned: <<response_data, status>>
    error,          \* the exception that ended the request, "" if none
    cache,          \* the shared cache: key -> [value, ttl]
    log,            \* the debug messages each request logged
    attempts,       \* history: the set attempts of each request
    tokens,         \* history: the tokens each request generated
    live,           \* history: the entry the request created is in the cache
    removed         \* history: some entry expired or was consumed

vars == << pc, args, response_data, response, error, cache, log,
           attempts, tokens, live, removed >>

Init ==
    /\ pc = [r \in Requests |-> "idle"]
    /\ args = [r \in Requests |-> [state |-> None, packaging |-> None]]
    /\ response_data = [r \in Requests |-> << >>]
    /\ response = [r \in Requests |-> << >>]
    /\ error = [r \in Requests |-> ""]
    /\ cache \in
         { << >>,
           [k \in {DEVICE_PAIRING_CODE_KEY(FOREIGN_CODE)} |->
               [value |-> ForeignValue, ttl |-> ONE_DAY]] }
    /\ log = [r \in Requests |-> << >>]
    /\ attempts = [r \in Requests |-> << >>]
    /\ tokens = [r \in Requests |-> << >>]
    /\ live = [r \in Requests |-> FALSE]
    /\ removed = FALSE

(***************************************************************************)
(* Actions.                                                                *)
(***************************************************************************)
\* get, line 63, and _build_response, lines 74-79: a GET request arrives
\* with its query parameters; request.args["state"] raises when the
\* parameter is missing; otherwise the token is generated and the dict built
Get(r) ==
    /\ pc[r] = "idle"
    /\ \E s \in StateArgs, p \in PackagingArgs :
         /\ args' = [args EXCEPT ![r] = [state |-> s, packaging |-> p]]
         /\ IF StateLookupRaises(s)
            THEN /\ pc' = [pc EXCEPT ![r] = "error"]
                 /\ error' = [error EXCEPT ![r] = "BadRequestKeyError"]
                 /\ UNCHANGED << response_data, tokens >>
            ELSE /\ \E u \in Uuids(r) :
                      /\ response_data' = [response_data EXCEPT ![r] =
                             InitialResponseData(s, GenerateToken(u))]
                      /\ tokens' = [tokens EXCEPT ![r] =
                             Append(@, GenerateToken(u))]
                 /\ pc' = [pc EXCEPT ![r] = "loop"]
                 /\ UNCHANGED error
    /\ UNCHANGED << response, cache, log, attempts, live, removed >>

\* the loop body, lines 81-82: generate a code and put it in response_data
GenerateCode(r) ==
    /\ pc[r] = "loop"
    /\ \E draw \in RandomDraws :
         /\ response_data' = [response_data EXCEPT ![r] =
                UpdateCode(@, GeneratePairingCode(draw))]
         /\ log' = [log EXCEPT ![r] =
                Append(@, GeneratedLogMsg(GeneratePairingCode(draw)))]
    /\ pc' = [pc EXCEPT ![r] = "add"]
    /\ UNCHANGED << args, response, error, cache, attempts, tokens,
                    live, removed >>

\* _add_pairing_code_to_cache, lines 103-117, the loop test, line 80, and
\* on success the returns of lines 85 and 64
AddPairingCodeToCache(r) ==
    /\ pc[r] = "add"
    /\ LET rd == response_data[r]
           key == CacheKey(rd)
           value == JsonDumps(CacheValue(rd, args[r].packaging))
           added == SetIfNotExistsResult(cache, key)
           attempt(outcome) ==
               [key |-> key, value |-> value, outcome |-> outcome]
       IN /\ response_data' = [response_data EXCEPT ![r] =
                  ResponseDataAfterCopy(rd, args[r].packaging)]
          /\ \/ \* the set was done
                /\ cache' = SetIfNotExistsCache(cache, key, value,
                                                CacheExpiration)
                /\ attempts' = [attempts EXCEPT ![r] =
                       Append(@, attempt(IF added THEN "set" ELSE "exists"))]
                /\ live' = [live EXCEPT ![r] = added]
                /\ IF ~ added /\ ~ DictHas(rd, CollisionLogField)
                   THEN \* response_data["pairing_code"] raises KeyError
                        /\ pc' = [pc EXCEPT ![r] = "error"]
                        /\ error' = [error EXCEPT ![r] = "KeyError"]
                        /\ UNCHANGED << log, response >>
                   ELSE /\ log' = [log EXCEPT ![r] =
                               IF added THEN @
                               ELSE Append(@, CollisionLogMsg(
                                        DictGet(rd, CollisionLogField)))]
                        /\ IF LoopStops(added)
                           THEN /\ pc' = [pc EXCEPT ![r] = "done"]
                                /\ response' = [response EXCEPT ![r] =
                                       << response_data'[r], HTTP_OK >>]
                           ELSE /\ pc' = [pc EXCEPT ![r] = "loop"]
                                /\ UNCHANGED response
                        /\ UNCHANGED error
             \/ \* the cache backend raised
                /\ attempts' = [attempts EXCEPT ![r] =
                       Append(@, attempt("raised"))]
                /\ pc' = [pc EXCEPT ![r] = PcAfterCacheError]
                /\ error' = [error EXCEPT ![r] = "CacheError"]
                /\ UNCHANGED << cache, log, live, response >>
    /\ UNCHANGED << args, tokens, removed >>

\* an entry leaves the cache: its TTL ran out, or the activation step
\* consumed it
Expire(key) ==
    /\ key \in DOMAIN cache
    /\ cache' = [k \in DOMAIN cache \ {key} |-> cache[k]]
    /\ live' = [r \in Requests |->
                  live[r] /\ ~ (Len(attempts[r]) > 0
                                /\ attempts[r][Len(attempts[r])].key = key)]
    /\ removed' = TRUE
    /\ UNCHANGED << pc, args, response_data, response, error, log,
                    attempts, tokens >>

\* time passes: every entry has TickSeconds less to live, and the entries
\* whose time has run out leave the cache
Tick ==
    /\ DOMAIN cache # {}
    /\ LET gone == {k \in DOMAIN cache : cache[k].ttl <= TickSeconds}
       IN /\ cache' = [k \in DOMAIN cache \ gone |->
                         [cache[k] EXCEPT !.ttl = @ - TickSeconds]]
          /\ live' = [r \in Requests |->
                        live[r] /\ ~ (Len(attempts[r]) > 0
                                      /\ attempts[r][Len(attempts[r])].key
                                             \in gone)]
          /\ removed' = (removed \/ gone # {})
    /\ UNCHANGED << pc, args, response_data, response, error, log,
                    attempts, tokens >>

Next ==
    \/ \E r \in Requests : Get(r)
    \/ \E r \in Requests : GenerateCode(r)
    \/ \E r \in Requests : AddPairingCodeToCache(r)
    \/ \E key \in DOMAIN cache : Expire(key)
    \/ Tick

Spec == Init /\ [][Next]_vars

(***************************************************************************)
(* Helpers of the properties.                                              *)
(***************************************************************************)
Last(s) == s[Len(s)]
Terminal(r) == pc[r] \in {"done", "error"}
Rejected(r) == {i \in 1..Len(attempts[r]) : attempts[r][i].outcome = "exists"}
BackendRaised(r) ==
    \E i \in 1..Len(attempts[r]) : attempts[r][i].outcome = "raised"
CodeOf(d) == DictGet(d, "code")
ResponseFields == {"state", "token", "expiration", "code"}

\* C1: no two requests both observe a successful set for the same pairing
\* code while the entry the first created is still in the cache: of the
\* requests that generated one code, at most one has won it.
C1_NoTwoWinners ==
    \A r1, r2 \in Requests :
        (r1 # r2 /\ live[r1] /\ live[r2])
            => CodeOf(response_data[r1]) # CodeOf(response_data[r2])
\* a request holds a live entry and another was rejected for the same code
C1_Witness ==
    \E r1, r2 \in Requests :
        /\ r1 # r2
        /\ live[r1]
        /\ Len(attempts[r2]) > 0
        /\ Last(attempts[r2]).outcome = "exists"
        /\ CodeOf(response_data[r1]) = CodeOf(response_data[r2])

\* C2: when all requests have run, with no entry removed, no backend error
\* and every request well-formed, all completed successfully, their codes
\* are pairwise distinct and the entry under each code is the request's own.
C2_AllSucceedDistinct ==
    ( /\ \A r \in Requests : Terminal(r)
      /\ ~ removed
      /\ \A r \in Requests : args[r].state # None /\ ~ BackendRaised(r) )
    => /\ \A r \in Requests : pc[r] = "done"
       /\ \A r1, r2 \in Requests :
              r1 # r2 => CodeOf(response[r1][1]) # CodeOf(response[r2][1])
       /\ \A r \in Requests :
              LET key == DEVICE_PAIRING_CODE_KEY(CodeOf(response[r][1]))
              IN /\ key \in DOMAIN cache
                 /\ DictGet(JsonLoads(cache[key].value), "token")
                        = DictGet(response[r][1], "token")
                 /\ DictGet(JsonLoads(cache[key].value), "state")
                        = args[r].state

\* C3: a collision is never surfaced: a request whose last set attempt was
\* rejected because the key exists is not in error, it is in the loop, about
\* to make another attempt.
C3_CollisionRetried ==
    \A r \in Requests :
        (Len(attempts[r]) > 0 /\ Last(attempts[r]).outcome = "exists")
            => pc[r] \in {"loop", "add"} /\ error[r] = ""

\* C4: a well-formed request that has ended without a backend error has
\* returned status OK after exactly N+1 set attempts, N of them rejected.
C4_SucceedsAfterRejections ==
    \A r \in Requests :
        (Terminal(r) /\ args[r].state # None /\ ~ BackendRaised(r))
            => /\ pc[r] = "done"
               /\ response[r][2] = HTTP_OK
               /\ Len(attempts[r]) = Cardinality(Rejected(r)) + 1
               /\ Last(attempts[r]).outcome = "set"

C6_CacheRecord ==
    \A r \in Requests :
        (pc[r] = "done" /\ live[r]) =>
            LET resp == response[r][1]
                key == DEVICE_PAIRING_CODE_KEY(CodeOf(resp))
            IN /\ key \in DOMAIN cache
               /\ key = Last(attempts[r]).key
               /\ LET rec == JsonLoads(cache[key].value)
                  IN /\ \A f \in ResponseFields :
                            DictHas(rec, f) /\ DictGet(rec, f) = DictGet(resp, f)
                     /\ DictHas(rec, "packaging_type")
                            <=> args[r].packaging # None
                     /\ DictHas(rec, "packaging_type")
                            => DictGet(rec, "packaging_type") = args[r].packaging
                     /\ DictKeys(rec) \subseteq
                            ResponseFields \cup {"packaging_type"}
\* a request with the 'packaging' parameter has succeeded, and so has one
\* without it, and their entries are in the cache
C6_Witness ==
    \E r1, r2 \in Requests :
        /\ pc[r1] = "done" /\ live[r1] /\ args[r1].packaging # None
        /\ pc[r2] = "done" /\ live[r2] /\ args[r2].packaging = None

\* C7: a response is returned only with status 200, holds exactly state,
\* token, expiration and code, echoes the 'state' parameter, has expiration
\* 86400, and never holds packaging_type.
C7_Response ==
    \A r \in Requests :
        IF pc[r] = "done"
        THEN /\ Len(response[r]) = 2
             /\ response[r][2] = 200
             /\ Len(response[r][1]) = 4
             /\ DictKeys(response[r][1]) = ResponseFields
             /\ DictGet(response[r][1], "state") = args[r].state
             /\ DictGet(response[r][1], "expiration") = 86400
        ELSE response[r] = << >>
\* a request that supplied 'packaging' has got its response
C7_Witness ==
    \E r \in Requests :
        /\ pc[r] = "done"
        /\ args[r].packaging # None
        /\ Len(response[r]) = 2

\* C8: every pairing code generated, attempted and returned has exactly 6
\* characters, all of the alphabet ACEFHJKLMNPRTUVWXY3479, and every key
\* written to the cache is derived from such a code.
C8_Alphabet ==
    { "A", "C", "E", "F", "H", "J", "K", "L", "M", "N", "P",
      "R", "T", "U", "V", "W", "X", "Y", "3", "4", "7", "9" }
C8_ValidCode(c) == Len(c) = 6 /\ \A i \in 1..Len(c) : c[i] \in C8_Alphabet
C8_CodeShape ==
    \A r \in Requests :
        /\ DictHas(response_data[r], "code")
               => C8_ValidCode(CodeOf(response_data[r]))
        /\ \A i \in 1..Len(attempts[r]) :
               LET c == CodeOf(JsonLoads(attempts[r][i].value))
               IN C8_ValidCode(c)
                  /\ attempts[r][i].key = DEVICE_PAIRING_CODE_KEY(c)
        /\ pc[r] = "done" => C8_ValidCode(CodeOf(response[r][1]))
\* a code whose last character is not the first of the alphabet was
\* attempted and returned
C8_Witness ==
    \E r \in Requests :
        /\ pc[r] = "done"
        /\ Len(attempts[r]) > 0
        /\ CodeOf(response[r][1])[6] # "A"

\* C9: the returned token has exactly 128 characters, each a lowercase
\* hexadecimal digit.
C9_HexDigits ==
    { "0", "1", "2", "3", "4", "5", "6", "7", "8", "9",
      "a", "b", "c", "d", "e", "f" }
C9_TokenShape ==
    \A r \in Requests :
        pc[r] = "done" =>
            LET t == DictGet(response[r][1], "token")
            IN Len(t) = 128 /\ \A i \in 1..Len(t) : t[i] \in C9_HexDigits
\* a token was returned, and it has a letter digit in it
C9_Witness ==
    \E r \in Requests :
        /\ pc[r] = "done"
        /\ \E i \in 1..128 :
               DictGet(response[r][1], "token")[i] \in {"a", "b", "c", "d", "e", "f"}

\* C10: within one request, each set attempt uses a key distinct from the
\* keys of its earlier attempts.  In this model no request reaches a second
\* attempt (C10_SecondAttempt is unreachable: a rejected set ends the request
\* with KeyError), so the formula holds without its case ever happening.
C10_DistinctKeys ==
    \A r \in Requests :
        \A i, j \in 1..Len(attempts[r]) :
            i # j => attempts[r][i].key # attempts[r][j].key
C10_SecondAttempt == \E r \in Requests : Len(attempts[r]) >= 2

\* the request whose set attempt this step is, if any
AttemptsIn(r) == Len(attempts'[r]) = Len(attempts[r]) + 1

\* C11: a set attempt that finds the key leaves the cache as it was, value
\* and remaining TTL of the existing entry included; a set attempt that
\* creates an entry creates it with a TTL of exactly 86400 seconds and
\* leaves the other entries as they were.
C11_FailedSetFrame ==
    [][\A r \in Requests :
          AttemptsIn(r) =>
              LET a == attempts'[r][Len(attempts'[r])]
              IN CASE a.outcome = "exists" ->
                          /\ a.key \in DOMAIN cache
                          /\ cache' = cache
                   [] a.outcome = "set" ->
                          /\ a.key \notin DOMAIN cache
                          /\ DOMAIN cache' = DOMAIN cache \cup {a.key}
                          /\ cache'[a.key].ttl = 86400
                          /\ cache'[a.key].value = a.value
                          /\ \A k \in DOMAIN cache : cache'[k] = cache[k]
                   [] OTHER -> cache' = cache]_vars
\* a request was rejected for a key whose entry, created by another request,
\* had already lost part of its TTL, and the entry is still as it was
C11_Witness ==
    \E r1, r2 \in Requests :
        /\ r1 # r2
        /\ live[r1]
        /\ Len(attempts[r2]) > 0
        /\ Last(attempts[r2]).outcome = "exists"
        /\ Last(attempts[r2]).key = Last(attempts[r1]).key
        /\ cache[Last(attempts[r1]).key].ttl < 86400
        /\ cache[Last(attempts[r1]).key].value = Last(attempts[r1]).value

\* the collision messages in the log of a request
CollisionLogEntries(r) ==
    {i \in 1..Len(log[r]) : log[r][i][1] = "Pairing code "}

\* C12: every rejected set attempt has its own debug log entry naming the
\* rejected code: a request has as many collision log entries as rejected
\* attempts, and the i-th entry names the code of the i-th rejected attempt.
C12_CollisionLogged ==
    \A r \in Requests :
        /\ Cardinality(CollisionLogEntries(r)) = Cardinality(Rejected(r))
        /\ \A i \in Rejected(r) :
               \E j \in CollisionLogEntries(r) :
                   log[r][j] = << "Pairing code " >>
                                 \o CodeOf(JsonLoads(attempts[r][i].value))
                                 \o << " exists, generating new code" >>

\* C13: an error of the cache backend ends the request at once: the attempt
\* that raised is the request's last, the request is in error with the
\* cache's error, it has no response, and no collision was logged for it.
C13_BackendErrorFatal ==
    \A r \in Requests :
        BackendRaised(r) =>
            /\ Last(attempts[r]).outcome = "raised"
            /\ \A i \in 1..(Len(attempts[r]) - 1) :
                   attempts[r][i].outcome # "raised"
            /\ pc[r] = "error"
            /\ error[r] = "CacheError"
            /\ response[r] = << >>
            /\ Cardinality(CollisionLogEntries(r))
                   = Cardinality(Rejected(r) \ {Len(attempts[r])})
\* a request's set attempt raised while another request went on and won
C13_Witness ==
    \E r1, r2 \in Requests :
        /\ BackendRaised(r1)
        /\ error[r1] = "CacheError"
        /\ pc[r2] = "done"

\* the set attempts of a request that created an entry
Created(r) == {i \in 1..Len(attempts[r]) : attempts[r][i].outcome = "set"}
\* the cache entries that carry the token of a request
OwnEntries(r) ==
    {k \in DOMAIN cache :
        Len(tokens[r]) > 0
        /\ DictGet(JsonLoads(cache[k].value), "token") = tokens[r][1]}

\* C14: a request creates at most one cache entry, exactly one when it
\* succeeds and then with its last attempt; a request that ended in an error
\* created none; the entries of a request in the cache are those it created.
C14_OneEntry ==
    \A r \in Requests :
        /\ Cardinality(Created(r)) <= 1
        /\ pc[r] = "done" <=> Created(r) = {Len(attempts[r])} /\ Created(r) # {}
        /\ pc[r] = "error" => Created(r) = {} /\ OwnEntries(r) = {}
        /\ \A k \in OwnEntries(r) :
               \E i \in Created(r) : attempts[r][i].key = k
        /\ Cardinality(OwnEntries(r)) <= 1
\* a request has succeeded and its entry is in the cache, and a request that
\* was rejected has ended in an error and has no entry
C14_Witness ==
    \E r1, r2 \in Requests :
        /\ pc[r1] = "done" /\ Cardinality(OwnEntries(r1)) = 1
        /\ pc[r2] = "error" /\ Cardinality(Rejected(r2)) = 1

\* C15: a request without the 'state' parameter fails with the lookup's own
\* error before any cache operation: it makes no set attempt, generates no
\* token or code, returns nothing, and its arrival leaves the cache as it was.
C15_MissingState ==
    /\ [](\A r \in Requests :
            (pc[r] # "idle" /\ args[r].state = None) =>
                /\ pc[r] = "error"
                /\ error[r] = "BadRequestKeyError"
                /\ attempts[r] = << >>
                /\ tokens[r] = << >>
                /\ log[r] = << >>
                /\ response[r] = << >>)
    /\ [][\A r \in Requests :
            (pc[r] = "idle" /\ pc'[r] # "idle" /\ args'[r].state = None)
                => cache' = cache]_vars
\* a request without 'state' has failed while the cache holds an entry
C15_Witness ==
    \E r \in Requests :
        /\ pc[r] = "error"
        /\ args[r].state = None
        /\ error[r] = "BadRequestKeyError"
        /\ DOMAIN cache # {}

====
